---- MODULE Spec2Model ----
(***************************************************************************)
(* A model of xdress/cythongen.py: the implementation pipeline (classpyx,  *)
(* funcpyx and the member generators they call), the header pipelines      *)
(* (classcpppxd, funccpppxd, classpxd) and the run-time behaviour of the   *)
(* dispatcher that _gen_dispatcher generates.                              *)
(*                                                                         *)
(* Strings are sequences of one-character strings, ordered as Python       *)
(* orders them (by code point); tuples are ordered lexicographically.      *)
(***************************************************************************)
EXTENDS Integers, Sequences, FiniteSets, TLC

VARIABLES
    desc,            \* the description handed to classpyx / funcpyx
    classes,         \* classpyx's `classes`: class name -> [parents, methods]
    pc,              \* position of the generator
    attritems,       \* classpyx: sorted(desc['attrs'].items())
    ai,              \* number of attritems already handled
    cached_names,    \* classpyx: cached_names
    alines,          \* classpyx: the properties emitted so far
    property_defaults, \* classpyx: d['property_defaults'] (slots set to None in __cinit__)
    methitems,       \* sorted(desc['methods'].items()) / sorted(desc['signatures'].items())
    mi,              \* number of methitems already handled
    currcounts,      \* currcounts
    mangled_mnames,  \* mangled_mnames / mangled_fnames
    clines,          \* classpyx: the constructor block emitted so far
    mlines,          \* classpyx mlines / funcpyx flines: the methods block emitted so far
    call,            \* the call being served by a generated dispatcher (NoCall if none)
    dpc,             \* position inside the generated dispatcher
    di,              \* index of the next variant the dispatcher looks at
    log,             \* the variant invocations the dispatcher has made, in order
    result,          \* the outcome of the dispatcher call
    cpppxd,          \* what the last classcpppxd / funccpppxd returned (NoOutput if none)
    pxd,             \* what the last classpxd returned (NoOutput if none)
    passes           \* the generator calls on desc that have ended, in order

genVars  == <<desc, classes, pc, attritems, ai, cached_names, alines, property_defaults,
              methitems, mi, currcounts, mangled_mnames, clines, mlines>>
dispVars == <<call, dpc, di, log, result>>
passVars == <<cpppxd, pxd, passes>>
vars     == <<desc, classes, pc, attritems, ai, cached_names, alines, property_defaults,
              methitems, mi, currcounts, mangled_mnames, clines, mlines,
              call, dpc, di, log, result, cpppxd, pxd, passes>>

-----------------------------------------------------------------------------
(* Strings *)

\* The characters the model uses, in code-point order.
Alphabet ==
    <<".", "0", "1", "2", "3", "4", "5", "6", "7", "8", "9",
      "A", "B", "C", "F", "_",
      "a", "b", "c", "d", "e", "f", "g", "h", "i", "j", "k", "l", "m",
      "n", "o", "p", "q", "r", "s", "t", "u", "v", "w", "x", "y", "z", "~">>

Ord(c) == CHOOSE i \in 1..Len(Alphabet) : Alphabet[i] = c

CharLess(a, b) == Ord(a) < Ord(b)

\* Python's < on two strings: the first differing character decides, a proper
\* prefix is smaller.
StrLess(s, t) ==
    \E i \in 1..Len(t) :
        /\ \A j \in 1..(i - 1) : j <= Len(s) /\ s[j] = t[j]
        /\ \/ i = Len(s) + 1
           \/ i <= Len(s) /\ CharLess(s[i], t[i])

\* str.lower()
LowerChar(c) ==
    CASE c = "A" -> "a"
      [] c = "B" -> "b"
      [] c = "C" -> "c"
      [] c = "F" -> "f"
      [] OTHER -> c

Lower(s) == [i \in 1..Len(s) |-> LowerChar(s[i])]

\* str.startswith('_')
IsPrivate(s) == Len(s) > 0 /\ s[1] = "_"

DigitChars == <<"0", "1", "2", "3", "4", "5", "6", "7", "8", "9">>

RECURSIVE Decimal(_)
\* str(n) for n >= 0
Decimal(n) ==
    IF n < 10 THEN <<DigitChars[n + 1]>>
    ELSE Decimal(n \div 10) \o <<DigitChars[(n % 10) + 1]>>

RECURSIVE ZeroPad(_, _)
\* pads s with zeros on the left to at least w characters
ZeroPad(s, w) == IF Len(s) >= w THEN s ELSE ZeroPad(<<"0">> \o s, w)

\* "{0:0{1}}".format(n, w)
FormatIndex(n, w) == ZeroPad(Decimal(n), w)

RECURSIVE Log10Floor(_)
Log10Floor(n) == IF n < 10 THEN 0 ELSE 1 + Log10Floor(n \div 10)

\* int(math.log(n, 10) + 1) for n >= 1.  (CPython's float logarithm gives the
\* same value as the integer computation for every n the model reaches.)
PadWidth(n) == Log10Floor(n) + 1

\* sorted(S) for a set S that lt, the set of the pairs <<d, e>> with d < e,
\* orders strictly and totally.
SortSet(S, lt) ==
    [i \in 1..Cardinality(S) |->
        CHOOSE e \in S : Cardinality({d \in S : <<d, e>> \in lt}) = i - 1]

\* the pairs of S in string order
StrOrder(S) == {p \in S \X S : StrLess(p[1], p[2])}

-----------------------------------------------------------------------------
(* Names, types and signature keys *)

None == <<"None">>          \* Python's None (no string equals it)
Absent == <<"absent">>      \* a key that a dict does not have

sInit == <<"_", "_", "i", "n", "i", "t", "_", "_">>   \* '__init__'

tInt == <<"i", "n", "t">>
tStr == <<"s", "t", "r">>
tNat == <<"n", "a", "t">>   \* a refinement of int
tVec == <<"v", "e", "c">>   \* a container type whose conversion is cached

\* A signature key (name, arg_1, ..., arg_n), each arg a pair (argname, type).
Key(name, args) == [name |-> name, args |-> args]

ArgLess(a, b) == StrLess(a[1], b[1]) \/ (a[1] = b[1] /\ StrLess(a[2], b[2]))

\* Python's < on two tuples of args
ArgsLess(s, t) ==
    \E i \in 1..Len(t) :
        /\ \A j \in 1..(i - 1) : j <= Len(s) /\ s[j] = t[j]
        /\ \/ i = Len(s) + 1
           \/ i <= Len(s) /\ ArgLess(s[i], t[i])

\* Python's < on two signature-key tuples.
KeyLess(k1, k2) ==
    \/ StrLess(k1.name, k2.name)
    \/ k1.name = k2.name /\ ArgsLess(k1.args, k2.args)

\* the pairs of S in signature-key order
KeyOrder(S) == {p \in S \X S : KeyLess(p[1], p[2])}

-----------------------------------------------------------------------------
(* The type-conversion service, as far as the generators consult it *)

\* typesystem.isrefinement
isrefinement(t) == t = tNat

\* typesystem.cython_pytype: the dynamic (Python) type a semantic type projects to
cython_pytype(t) ==
    CASE t = tInt -> "int"
      [] t = tNat -> "int"
      [] t = tStr -> "str"
      [] OTHER -> "list"

\* typesystem.cython_c2py(name, t): its (rtn, iscached) results.  A cached
\* conversion returns the per-instance slot self._<name>; an uncached one
\* returns an expression that names no slot.
cython_c2py(name, t) ==
    IF t = tVec
    THEN [rtn |-> <<"s", "e", "l", "f", ".", "_">> \o name, iscached |-> TRUE]
    ELSE [rtn |-> <<"i", "n", "t">> \o name, iscached |-> FALSE]

-----------------------------------------------------------------------------
(* _class_heirarchy and _method_instance_names *)

NoParents == <<None>>       \* desc['parents'] is None

Reverse(s) == [i \in 1..Len(s) |-> s[Len(s) + 1 - i]]

RECURSIVE _class_heirarchy(_, _, _)
RECURSIVE WalkParents(_, _, _)

\* WalkParents with each parent appended to the list instead of inserted in front
WalkParentsAppending(ps, ch, cl) ==
    IF ps = <<>> THEN ch
    ELSE WalkParents(Tail(ps), _class_heirarchy(Head(ps), ch \o <<Head(ps)>>, cl), cl)

\* the for loop of _class_heirarchy over ps, the parents still to visit
WalkParents(ps, ch, cl) ==
    IF ps = <<>> THEN ch
    ELSE WalkParents(Tail(ps), _class_heirarchy(Head(ps), <<Head(ps)>> \o ch, cl), cl)

\* the list ch after _class_heirarchy(cls, ch, classes)
_class_heirarchy(cls, ch, cl) ==
    IF cl[cls].parents = NoParents THEN ch
    ELSE LET ch1 == IF Len(ch) = 0 \/ ch[1] # cls THEN <<cls>> \o ch ELSE ch
         IN  WalkParents(Reverse(cl[cls].parents), ch1, cl)

\* classes.get(classname, {}).get('methods', {}).get(key, NotImplemented)
ClassRtn(cl, classname, key) ==
    IF classname \in DOMAIN cl /\ key \in DOMAIN cl[classname].methods
    THEN cl[classname].methods[key]
    ELSE <<"NotImplemented">>

\* _method_instance_names walking the chain from the class upwards
MethodInstanceNearest(dname, cl, key, rtn) ==
    LET classnames == _class_heirarchy(dname, <<>>, cl)
        hits == {i \in 1..Len(classnames) : ClassRtn(cl, classnames[i], key) = rtn}
    IN  IF hits = {} THEN dname
        ELSE classnames[CHOOSE i \in hits : \A j \in hits : i >= j]

\* _method_instance_names with the cast to the class itself (line 638)
MethodInstanceSelf(dname, cl, key, rtn) == dname

\* the class name _method_instance_names returns (its second result; the
\* first is the cast "(<ctype *> self._inst)" to that class)
_method_instance_names(dname, cl, key, rtn) ==
    LET classnames == _class_heirarchy(dname, <<>>, cl)
        hits == {i \in 1..Len(classnames) : ClassRtn(cl, classnames[i], key) = rtn}
    IN  IF hits = {} THEN dname
        ELSE classnames[CHOOSE i \in hits : \A j \in hits : i <= j]

-----------------------------------------------------------------------------
(* Name mangling *)

\* _count0(x)[name]
_count0(keys, name) == Cardinality({k \in keys : k.name = name})

\* MangleMethod with the index taken after currcounts is incremented
MangleMethodIndexFromOne(dname, mname, curr, count) ==
    IF 1 < count
    THEN Lower(<<"_">> \o dname \o <<"_">> \o mname \o <<"_">>
               \o FormatIndex(curr + 1, PadWidth(count)))
    ELSE mname

\* classpyx lines 749-753
MangleMethod(dname, mname, curr, count) ==
    IF 1 < count
    THEN Lower(<<"_">> \o dname \o <<"_">> \o mname \o <<"_">>
               \o FormatIndex(curr, PadWidth(count)))
    ELSE mname

\* funcpyx lines 839-843
MangleFunc(fname, curr, count) ==
    IF 1 < count
    THEN Lower(<<"_">> \o fname \o <<"_">> \o FormatIndex(curr, PadWidth(count)))
    ELSE fname

-----------------------------------------------------------------------------
(* _gen_dispatcher: the dispatcher it generates *)

\* sum([int(isrefinement(a[1])) for a in x[0][1:]])
RefineCount(key) == Cardinality({i \in 1..Len(key.args) : isrefinement(key.args[i][2])})

\* len(x[0])
KeyLen(key) == Len(key.args) + 1

\* the sort key refinenum, compared as Python compares tuples; x = <<key, mangled>>
RefineNumLess(x, y) ==
    \/ RefineCount(x[1]) < RefineCount(y[1])
    \/ /\ RefineCount(x[1]) = RefineCount(y[1])
       /\ \/ KeyLen(x[1]) < KeyLen(y[1])
          \/ KeyLen(x[1]) = KeyLen(y[1]) /\ StrLess(x[2], y[2])

\* the sort key refineopp
RefineOppLess(x, y) ==
    \/ -RefineCount(x[1]) < -RefineCount(y[1])
    \/ /\ RefineCount(x[1]) = RefineCount(y[1])
       /\ \/ KeyLen(x[1]) < KeyLen(y[1])
          \/ KeyLen(x[1]) = KeyLen(y[1]) /\ StrLess(x[2], y[2])

\* name_mangled.items()
Items(nm) == {<<k, nm[k]>> : k \in DOMAIN nm}

\* the pairs of S in the order of the sort key refinenum, of the sort key refineopp
RefineNumOrder(S) == {p \in S \X S : RefineNumLess(p[1], p[2])}
RefineOppOrder(S) == {p \in S \X S : RefineOppLess(p[1], p[2])}

\* ArgTypes with the (argname, pytype) pairs forgotten
ArgTypesPositionalOnly(key) ==
    {<<"i", <<i - 1>>, cython_pytype(key.args[i][2])>> : i \in 1..Len(key.args)}

\* <mangled>_argtypes: the frozenset of (index, pytype) and (argname, pytype)
\* pairs of a variant; an index pair is tagged "i", a name pair "k"
ArgTypes(key) ==
    {<<"i", <<i - 1>>, cython_pytype(key.args[i][2])>> : i \in 1..Len(key.args)}
    \cup {<<"k", key.args[i][1], cython_pytype(key.args[i][2])>> : i \in 1..Len(key.args)}

Variant(x) == [key |-> x[1], mangled |-> x[2], argtypes |-> ArgTypes(x[1])]

VariantSeq(order) == [i \in 1..Len(order) |-> Variant(order[i])]

\* ExactOrder sorted with the key of the try blocks
ExactOrderSwapped(nm) == VariantSeq(SortSet(Items(nm), RefineOppOrder(Items(nm))))

\* BestOrder sorted with the key of the exact tests (the refinement count not negated)
BestOrderNotInverted(nm) == VariantSeq(SortSet(Items(nm), RefineNumOrder(Items(nm))))

\* the order of the "if types <= ..." tests
ExactOrder(nm) == VariantSeq(SortSet(Items(nm), RefineNumOrder(Items(nm))))

\* the order of the try blocks
BestOrder(nm) == VariantSeq(SortSet(Items(nm), RefineOppOrder(Items(nm))))

_gen_dispatcher(name, nm, hasrtn) ==
    [kind |-> "dispatcher", def |-> name, hasrtn |-> hasrtn,
     exact |-> ExactOrder(nm), best |-> BestOrder(nm)]

-----------------------------------------------------------------------------
(* _gen_property *)

\* cached_names after _gen_property_get (lines 467-473)
_gen_property_get(name, t, cn) ==
    LET c == cython_c2py(name, t)
    IN  IF c.iscached THEN Append(cn, c.rtn) ELSE cn

\* CachedName taking the first cached name instead of the last
CachedNameFirst(oldcn, newcn) ==
    IF Len(newcn) = 1 + Len(oldcn) THEN newcn[1] ELSE None

\* the slot the setter of _gen_property resets (lines 497-502): None if none
CachedName(oldcn, newcn) ==
    IF Len(newcn) = 1 + Len(oldcn) THEN newcn[Len(newcn)] ELSE None

\* the property _gen_property emits: the slot its getter fills and returns
\* (None for an uncached conversion) and the slot its setter resets
_gen_property(name, t, cn) ==
    LET c == cython_c2py(name, t)
        newcn == _gen_property_get(name, t, cn)
    IN  [name |-> name,
         populates |-> IF c.iscached THEN c.rtn ELSE None,
         resets |-> CachedName(cn, newcn)]

-----------------------------------------------------------------------------
(* classpyx *)

NoClasses == <<>>           \* the argument classes=None
NoOutput == [returned |-> FALSE]   \* no value returned (yet)

\* a generator call that has ended: which generator, how it ended ("ok" or
\* "KeyError"), and whether desc carried 'srcpxd_filename' when it was entered
Pass(gen, outcome) ==
    [gen |-> gen, outcome |-> outcome, had |-> desc.srcpxd_filename # Absent]

sPyx == <<".", "p", "y", "x">>

CurrKey == methitems[mi + 1]
CurrName == CurrKey.name
CurrRtn == desc.methods[CurrKey]
MethCount(name) == _count0(DOMAIN desc.methods, name)

\* GroupOf without the test of the name
GroupOfAll(mangled, name) == mangled

\* nm = dict([(k, v) for k, v in mangled.items() if k[0] == name])
GroupOf(mangled, name) ==
    [k \in {x \in DOMAIN mangled : x.name = name} |-> mangled[k]]

\* lines 703-725
PyxStart ==
    /\ pc = "start" /\ desc.kind = "class"
    /\ classes' = IF classes = NoClasses
                  THEN (desc.name :> [parents |-> desc.parents, methods |-> desc.methods])
                  ELSE classes
    /\ attritems' = SortSet(DOMAIN desc.attrs, StrOrder(DOMAIN desc.attrs))
    /\ ai' = 0 /\ cached_names' = <<>> /\ alines' = <<>>
    /\ pc' = "attrs"
    /\ UNCHANGED <<desc, property_defaults, methitems, mi, currcounts, mangled_mnames,
                   clines, mlines>>
    /\ UNCHANGED dispVars /\ UNCHANGED passVars

\* lines 726-728
PyxAttrSkipPrivate ==
    /\ pc = "attrs" /\ ai < Len(attritems)
    /\ IsPrivate(attritems[ai + 1])
    /\ ai' = ai + 1
    /\ UNCHANGED <<desc, classes, pc, attritems, cached_names, alines, property_defaults,
                   methitems, mi, currcounts, mangled_mnames, clines, mlines>>
    /\ UNCHANGED dispVars /\ UNCHANGED passVars

\* lines 726-734
PyxAttrProperty ==
    /\ pc = "attrs" /\ ai < Len(attritems)
    /\ ~IsPrivate(attritems[ai + 1])
    /\ LET aname == attritems[ai + 1]
           atype == desc.attrs[aname]
       IN  /\ alines' = Append(alines, _gen_property(aname, atype, cached_names))
           /\ cached_names' = _gen_property_get(aname, atype, cached_names)
    /\ ai' = ai + 1
    /\ UNCHANGED <<desc, classes, pc, attritems, property_defaults,
                   methitems, mi, currcounts, mangled_mnames, clines, mlines>>
    /\ UNCHANGED dispVars /\ UNCHANGED passVars

\* lines 735-744
PyxAttrsDone ==
    /\ pc = "attrs" /\ ai = Len(attritems)
    /\ property_defaults' = cached_names
    /\ methitems' = SortSet(DOMAIN desc.methods, KeyOrder(DOMAIN desc.methods))
    /\ currcounts' = [n \in {k.name : k \in DOMAIN desc.methods} |-> 0]
    /\ mangled_mnames' = <<>>
    /\ mi' = 0 /\ clines' = <<>> /\ mlines' = <<>>
    /\ pc' = "methods"
    /\ UNCHANGED <<desc, classes, attritems, ai, cached_names, alines>>
    /\ UNCHANGED dispVars /\ UNCHANGED passVars

\* lines 745-748
PyxMethSkipPrivate ==
    /\ pc = "methods" /\ mi < Len(methitems)
    /\ IsPrivate(CurrName)
    /\ mi' = mi + 1
    /\ UNCHANGED <<desc, classes, pc, attritems, ai, cached_names, alines,
                   property_defaults, methitems, currcounts, mangled_mnames,
                   clines, mlines>>
    /\ UNCHANGED dispVars /\ UNCHANGED passVars

\* lines 745-766: a member without return type that is no constructor
PyxMethSkipDestructor ==
    /\ pc = "methods" /\ mi < Len(methitems)
    /\ ~IsPrivate(CurrName)
    /\ CurrRtn = None /\ CurrName \notin {desc.name, sInit}
    /\ currcounts' = [currcounts EXCEPT ![CurrName] = @ + 1]
    /\ mangled_mnames' = (CurrKey :> MangleMethod(desc.name, CurrName,
                               currcounts[CurrName], MethCount(CurrName)))
                         @@ mangled_mnames
    /\ mi' = mi + 1
    /\ UNCHANGED <<desc, classes, pc, attritems, ai, cached_names, alines,
                   property_defaults, methitems, clines, mlines>>
    /\ UNCHANGED dispVars /\ UNCHANGED passVars

\* lines 745-779
PyxMethConstructor ==
    /\ pc = "methods" /\ mi < Len(methitems)
    /\ ~IsPrivate(CurrName)
    /\ CurrRtn = None /\ CurrName \in {desc.name, sInit}
    /\ desc.srcpxd_filename # Absent
    /\ LET count == MethCount(CurrName)
           mname_mangled == IF 1 = count THEN sInit
                            ELSE MangleMethod(desc.name, CurrName, currcounts[CurrName], count)
           newmangled == (CurrKey :> mname_mangled) @@ mangled_mnames
           mcname == _method_instance_names(desc.name, classes, CurrKey, CurrRtn)
           ctor == [kind |-> "constructor", def |-> mname_mangled, key |-> CurrKey,
                    inst |-> mcname]
       IN  /\ currcounts' = [currcounts EXCEPT ![CurrName] = @ + 1]
           /\ mangled_mnames' = newmangled
           /\ clines' = IF 1 < count /\ currcounts'[CurrName] = count
                        THEN clines \o <<ctor,
                                 _gen_dispatcher(sInit, GroupOf(newmangled, CurrName), FALSE)>>
                        ELSE Append(clines, ctor)
    /\ mi' = mi + 1
    /\ UNCHANGED <<desc, classes, pc, attritems, ai, cached_names, alines,
                   property_defaults, methitems, mlines>>
    /\ UNCHANGED dispVars /\ UNCHANGED passVars

\* lines 745-762, 780-792
PyxMethMethod ==
    /\ pc = "methods" /\ mi < Len(methitems)
    /\ ~IsPrivate(CurrName)
    /\ CurrRtn # None
    /\ LET count == MethCount(CurrName)
           mname_mangled == MangleMethod(desc.name, CurrName, currcounts[CurrName], count)
           newmangled == (CurrKey :> mname_mangled) @@ mangled_mnames
           mcname == _method_instance_names(desc.name, classes, CurrKey, CurrRtn)
           meth == [kind |-> "method", def |-> mname_mangled, key |-> CurrKey,
                    inst |-> mcname]
       IN  /\ currcounts' = [currcounts EXCEPT ![CurrName] = @ + 1]
           /\ mangled_mnames' = newmangled
           /\ mlines' = IF 1 < count /\ currcounts'[CurrName] = count
                        THEN mlines \o <<meth,
                                 _gen_dispatcher(CurrName, GroupOf(newmangled, CurrName), TRUE)>>
                        ELSE Append(mlines, meth)
    /\ mi' = mi + 1
    /\ UNCHANGED <<desc, classes, pc, attritems, ai, cached_names, alines,
                   property_defaults, methitems, clines>>
    /\ UNCHANGED dispVars /\ UNCHANGED passVars

\* lines 793-806
PyxFinish ==
    /\ pc = "methods" /\ mi = Len(methitems)
    /\ clines' = IF desc.parents = NoParents
                 THEN Append(clines, [kind |-> "dealloc", guard |-> "_free_inst"])
                 ELSE clines
    /\ desc' = IF desc.pyx_filename = Absent
               THEN [desc EXCEPT !.pyx_filename = Lower(desc.name) \o sPyx]
               ELSE desc
    /\ pc' = "done"
    /\ passes' = Append(passes, Pass("classpyx", "ok"))
    /\ UNCHANGED <<classes, attritems, ai, cached_names, alines, property_defaults,
                   methitems, mi, currcounts, mangled_mnames, mlines>>
    /\ UNCHANGED dispVars /\ UNCHANGED <<cpppxd, pxd>>

-----------------------------------------------------------------------------
(* funcpyx *)

\* lines 824-834
FuncStart ==
    /\ pc = "start" /\ desc.kind = "func"
    /\ desc.srcpxd_filename # Absent
    /\ methitems' = SortSet(DOMAIN desc.methods, KeyOrder(DOMAIN desc.methods))
    /\ currcounts' = [n \in {k.name : k \in DOMAIN desc.methods} |-> 0]
    /\ mangled_mnames' = <<>>
    /\ mi' = 0 /\ mlines' = <<>>
    /\ pc' = "funcs"
    /\ UNCHANGED <<desc, classes, attritems, ai, cached_names, alines,
                   property_defaults, clines>>
    /\ UNCHANGED dispVars /\ UNCHANGED passVars

\* lines 835-838
FuncSkipPrivate ==
    /\ pc = "funcs" /\ mi < Len(methitems)
    /\ IsPrivate(CurrName)
    /\ mi' = mi + 1
    /\ UNCHANGED <<desc, classes, pc, attritems, ai, cached_names, alines,
                   property_defaults, methitems, currcounts, mangled_mnames,
                   clines, mlines>>
    /\ UNCHANGED dispVars /\ UNCHANGED passVars

\* lines 835-858
FuncFunction ==
    /\ pc = "funcs" /\ mi < Len(methitems)
    /\ ~IsPrivate(CurrName)
    /\ LET count == MethCount(CurrName)
           fname_mangled == MangleFunc(CurrName, currcounts[CurrName], count)
           newmangled == (CurrKey :> fname_mangled) @@ mangled_mnames
           func == [kind |-> "method", def |-> fname_mangled, key |-> CurrKey,
                    inst |-> desc.srcpxd_filename]
       IN  /\ currcounts' = [currcounts EXCEPT ![CurrName] = @ + 1]
           /\ mangled_mnames' = newmangled
           /\ mlines' = IF 1 < count /\ currcounts'[CurrName] = count
                        THEN mlines \o <<func,
                                 _gen_dispatcher(CurrName, GroupOf(newmangled, CurrName), TRUE)>>
                        ELSE Append(mlines, func)
    /\ mi' = mi + 1
    /\ UNCHANGED <<desc, classes, pc, attritems, ai, cached_names, alines,
                   property_defaults, methitems, clines>>
    /\ UNCHANGED dispVars /\ UNCHANGED passVars

\* lines 860-863
FuncFinish ==
    /\ pc = "funcs" /\ mi = Len(methitems)
    /\ desc' = IF desc.pyx_filename = Absent
               THEN [desc EXCEPT !.pyx_filename = Lower(desc.name) \o sPyx]
               ELSE desc
    /\ pc' = "done"
    /\ passes' = Append(passes, Pass("funcpyx", "ok"))
    /\ UNCHANGED <<classes, attritems, ai, cached_names, alines, property_defaults,
                   methitems, mi, currcounts, mangled_mnames, clines, mlines>>
    /\ UNCHANGED dispVars /\ UNCHANGED <<cpppxd, pxd>>

-----------------------------------------------------------------------------
(* classpyx and funcpyx failing on desc['srcpxd_filename'], and the caller *)

\* the locals of classpyx / funcpyx
pyxVars == <<classes, pc, attritems, ai, cached_names, alines, property_defaults,
             methitems, mi, currcounts, mangled_mnames, clines, mlines>>

\* the locals of a generator that is not running: nothing has been emitted
NoLocals ==
    /\ attritems' = <<>> /\ ai' = 0 /\ cached_names' = <<>> /\ alines' = <<>>
    /\ property_defaults' = <<>>
    /\ methitems' = <<>> /\ mi' = 0 /\ currcounts' = <<>> /\ mangled_mnames' = <<>>
    /\ clines' = <<>> /\ mlines' = <<>>

MaxPasses == 3       \* generator calls on one description

\* lines 763-775: desc['srcpxd_filename'] of a description without that key
\* raises KeyError; classpyx returns nothing
PyxMethConstructorKeyError ==
    /\ pc = "methods" /\ mi < Len(methitems)
    /\ ~IsPrivate(CurrName)
    /\ CurrRtn = None /\ CurrName \in {desc.name, sInit}
    /\ desc.srcpxd_filename = Absent
    /\ pc' = "failed"
    /\ NoLocals
    /\ passes' = Append(passes, Pass("classpyx", "KeyError"))
    /\ UNCHANGED <<desc, classes, cpppxd, pxd>>
    /\ UNCHANGED dispVars

\* line 825: desc['srcpxd_filename'] of a description without that key raises
\* KeyError; funcpyx returns nothing
FuncStartKeyError ==
    /\ pc = "start" /\ desc.kind = "func"
    /\ desc.srcpxd_filename = Absent
    /\ pc' = "failed"
    /\ NoLocals
    /\ passes' = Append(passes, Pass("funcpyx", "KeyError"))
    /\ UNCHANGED <<desc, classes, cpppxd, pxd>>
    /\ UNCHANGED dispVars

\* classpyx / funcpyx has returned or raised: the caller goes on to its next
\* call of a generator on the same description
Return ==
    /\ pc \in {"done", "failed"} /\ dpc = "idle"
    /\ Len(passes) < MaxPasses
    /\ pc' = "start"
    /\ NoLocals
    /\ UNCHANGED <<desc, classes>>
    /\ UNCHANGED dispVars /\ UNCHANGED passVars

-----------------------------------------------------------------------------
(* classcpppxd, funccpppxd and classpxd *)

\* typesystem.cython_ctype: the C type a semantic type is declared with; a
\* refinement is declared with the type it refines
cython_ctype(t) == IF isrefinement(t) THEN tInt ELSE t

\* utils.expand_default_args on signature keys none of whose arguments carries
\* a default value (the keys of the model): every key is kept as it is
expand_default_args(keys) == keys

\* typesystem.cython_c2py(aname, atype, cache_prefix=None): the name of the
\* cache slot, without the prefix "self."
CacheName(name, t) ==
    LET rtn == cython_c2py(name, t).rtn IN SubSeq(rtn, 6, Len(rtn))

IsDestructorName(s) == Len(s) > 0 /\ s[1] = "~"

sCpp == <<"c", "p", "p", "_">>
sPxd == <<".", "p", "x", "d">>
sInst == <<"_", "i", "n", "s", "t">>
sFreeInst == <<"_", "f", "r", "e", "e", "_", "i", "n", "s", "t">>

\* the line "rtype name(argtypes)" declaring the member under key (no rtype
\* for a constructor)
DeclLine(d, key) ==
    [name |-> key.name,
     argtypes |-> [i \in 1..Len(key.args) |-> cython_ctype(key.args[i][2])],
     rtype |-> cython_ctype(d.methods[key])]

\* "if line not in lines: lines.append(line)" over the keys in order
DeclLines(d, keys) ==
    LET all == [i \in 1..Len(keys) |-> DeclLine(d, keys[i])]
        first == {i \in 1..Len(keys) : \A j \in 1..(i - 1) : all[j] # all[i]}
    IN  [n \in 1..Cardinality(first) |->
            all[CHOOSE i \in first : Cardinality({j \in first : j < i}) = n - 1]]

\* what classcpppxd declares (lines 147-180)
classcpppxd(d) ==
    LET aitems == SortSet(DOMAIN d.attrs, StrOrder(DOMAIN d.attrs))
        keys == expand_default_args(DOMAIN d.methods)
        mitems == SortSet(keys, KeyOrder(keys))
        Public(a) == ~IsPrivate(a)
        IsCtor(k) == ~IsPrivate(k.name) /\ ~IsDestructorName(k.name) /\ d.methods[k] = None
        IsMeth(k) == ~IsPrivate(k.name) /\ ~IsDestructorName(k.name) /\ d.methods[k] # None
        pub == SelectSeq(aitems, Public)
    IN  [attrs |-> [i \in 1..Len(pub) |->
                       [name |-> pub[i], ctype |-> cython_ctype(d.attrs[pub[i]])]],
         constructors |-> DeclLines(d, SelectSeq(mitems, IsCtor)),
         methods |-> DeclLines(d, SelectSeq(mitems, IsMeth))]

\* what funccpppxd declares (lines 225-241)
funccpppxd(d) ==
    LET keys == expand_default_args(DOMAIN d.methods)
        fitems == SortSet(keys, KeyOrder(keys))
        Public(k) == ~IsPrivate(k.name)
    IN  [attrs |-> <<>>, constructors |-> <<>>,
         methods |-> DeclLines(d, SelectSeq(fitems, Public))]

\* parentless_body with the fields declared for every class
ParentlessBodyAlways(parents) ==
    <<[field |-> sInst, attr |-> None], [field |-> sFreeInst, attr |-> None]>>

\* lines 352-353: the handle and the ownership flag of a class whose parents
\* entry is None
ParentlessBody(parents) ==
    IF parents = NoParents
    THEN <<[field |-> sInst, attr |-> None], [field |-> sFreeInst, attr |-> None]>>
    ELSE <<>>

\* the body classpxd declares (lines 352-365): each field and the attribute it
\* caches (None for the handle and the flag)
classpxd(d) ==
    LET aitems == SortSet(DOMAIN d.attrs, StrOrder(DOMAIN d.attrs))
        Cached(a) == ~IsPrivate(a) /\ cython_c2py(a, d.attrs[a]).iscached
        c == SelectSeq(aitems, Cached)
    IN  [body |-> ParentlessBody(d.parents)
                  \o [i \in 1..Len(c) |->
                         [field |-> CacheName(c[i], d.attrs[c[i]]), attr |-> c[i]]]]

\* the description after "if '<slot>' not in desc: desc['<slot>'] = ..."
MemoSrcPxd(d) ==
    IF d.srcpxd_filename = Absent
    THEN [d EXCEPT !.srcpxd_filename = sCpp \o Lower(d.name) \o sPxd] ELSE d
\* MemoPxd writing the slot whether or not the description has it
MemoPxdAlways(d) == [d EXCEPT !.pxd_filename = Lower(d.name) \o sPxd]

MemoPxd(d) ==
    IF d.pxd_filename = Absent
    THEN [d EXCEPT !.pxd_filename = Lower(d.name) \o sPxd] ELSE d

\* classcpppxd, lines 136-186
ClassCppPxd ==
    /\ pc = "start" /\ desc.kind = "class"
    /\ Len(passes) < MaxPasses
    /\ cpppxd' = classcpppxd(desc)
    /\ desc' = MemoSrcPxd(desc)
    /\ passes' = Append(passes, Pass("classcpppxd", "ok"))
    /\ UNCHANGED pxd
    /\ UNCHANGED pyxVars /\ UNCHANGED dispVars

\* funccpppxd, lines 218-247
FuncCppPxd ==
    /\ pc = "start" /\ desc.kind = "func"
    /\ Len(passes) < MaxPasses
    /\ cpppxd' = funccpppxd(desc)
    /\ desc' = MemoSrcPxd(desc)
    /\ passes' = Append(passes, Pass("funccpppxd", "ok"))
    /\ UNCHANGED pxd
    /\ UNCHANGED pyxVars /\ UNCHANGED dispVars

\* classpxd, lines 332-368
ClassPxd ==
    /\ pc = "start" /\ desc.kind = "class"
    /\ Len(passes) < MaxPasses
    /\ desc' = MemoPxd(desc)
    /\ pxd' = classpxd(desc)
    /\ desc.srcpxd_filename # Absent
    /\ passes' = Append(passes, Pass("classpxd", "ok"))
    /\ UNCHANGED cpppxd
    /\ UNCHANGED pyxVars /\ UNCHANGED dispVars

\* ClassPxdKeyError with the key read with a default: the call succeeds
ClassPxdWithDefault ==
    /\ pc = "start" /\ desc.kind = "class"
    /\ Len(passes) < MaxPasses
    /\ desc.srcpxd_filename = Absent
    /\ desc' = MemoPxd(desc)
    /\ pxd' = classpxd(desc)
    /\ passes' = Append(passes, Pass("classpxd", "ok"))
    /\ UNCHANGED cpppxd
    /\ UNCHANGED pyxVars /\ UNCHANGED dispVars

\* classpxd, lines 332-345: desc['srcpxd_filename'] of a description without
\* that key raises KeyError, after 'pxd_filename' has been memoized
ClassPxdKeyError ==
    /\ pc = "start" /\ desc.kind = "class"
    /\ Len(passes) < MaxPasses
    /\ desc.srcpxd_filename = Absent
    /\ desc' = MemoPxd(desc)
    /\ pxd' = NoOutput
    /\ passes' = Append(passes, Pass("classpxd", "KeyError"))
    /\ UNCHANGED cpppxd
    /\ UNCHANGED pyxVars /\ UNCHANGED dispVars

-----------------------------------------------------------------------------
(* The generated dispatcher at run time (the code _gen_dispatcher emits) *)

NoCall == [disp |-> <<>>]

\* the except clause with one kind too many, and with one kind missing
ToleratedPlusValueError == {"RuntimeError", "TypeError", "NameError", "ValueError"}
ToleratedWithoutRuntimeError == {"TypeError", "NameError"}

\* except (RuntimeError, TypeError, NameError): pass
Tolerated == {"RuntimeError", "TypeError", "NameError"}

\* the error kinds a variant's conversions or native call may raise
ErrorKinds == {"RuntimeError", "TypeError", "NameError", "ValueError"}

\* types = set([(i, type(a)) ...]); types.update([(k, type(v)) ...])
CallTypes(args, kwargs) ==
    {<<"i", <<i - 1>>, args[i]>> : i \in 1..Len(args)}
    \cup {<<"k", k, kwargs[k]>> : k \in DOMAIN kwargs}

\* Python binds (*args, **kwargs) to the parameters of "def <mangled>(self, a1, ..., an)"
\* (_gen_method / _gen_constructor emit no defaults for two-element args)
Binds(key, args, kwargs) ==
    LET params == [i \in 1..Len(key.args) |-> key.args[i][1]]
    IN  /\ Len(args) <= Len(params)
        /\ \A k \in DOMAIN kwargs :
               \E i \in 1..Len(params) : params[i] = k /\ i > Len(args)
        /\ \A i \in 1..Len(params) : i > Len(args) => params[i] \in DOMAIN kwargs

\* how self.<mangled>(*args, **kwargs) can end: a call that does not bind raises
\* TypeError; one that binds runs the conversions and the native call, which
\* complete or raise
InvokeOutcomes(key, args, kwargs) ==
    IF Binds(key, args, kwargs) THEN {"ok"} \cup ErrorKinds ELSE {"TypeError"}

Dispatchers == {clines[i] : i \in {j \in 1..Len(clines) : clines[j].kind = "dispatcher"}}
                \cup {mlines[i] : i \in {j \in 1..Len(mlines) : mlines[j].kind = "dispatcher"}}

\* "return self.X(*args, **kwargs)", or "self.X(*args, **kwargs); return"
\* (the value a variant returns is named after the variant)
Returned(d, v) ==
    [kind |-> "return", value |-> IF d.hasrtn THEN v.mangled ELSE None,
     by |-> "variant", who |-> v.mangled]

\* the dispatcher call ends with the error a variant raised
Propagated(err, v) == [kind |-> "raise", value |-> err, by |-> "variant", who |-> v.mangled]

\* raise RuntimeError('method <name>() could not be dispatched')
DispatchFailure(name) ==
    [kind |-> "raise", value |-> "RuntimeError", by |-> "dispatcher", who |-> name]

\* self.<mangled>(*args, **kwargs), ending as out
Invocation(v, phase, out) ==
    [variant |-> v.mangled, key |-> v.key, args |-> call.args, kwargs |-> call.kwargs,
     phase |-> phase, outcome |-> out]

\* the dispatcher is called: lines 579-580
DispatchCall(d, args, kwargs) ==
    /\ pc = "done" /\ dpc = "idle"
    /\ d \in Dispatchers
    /\ call' = [disp |-> d, args |-> args, kwargs |-> kwargs,
                types |-> CallTypes(args, kwargs)]
    /\ dpc' = "exact" /\ di' = 1
    /\ UNCHANGED <<log, result>>
    /\ UNCHANGED genVars /\ UNCHANGED passVars

\* lines 596-601: "if types <= self.<mangled>_argtypes" is false
ExactSkip ==
    /\ dpc = "exact" /\ di <= Len(call.disp.exact)
    /\ ~(call.types \subseteq call.disp.exact[di].argtypes)
    /\ di' = di + 1
    /\ UNCHANGED <<call, dpc, log, result>>
    /\ UNCHANGED genVars /\ UNCHANGED passVars

\* ExactInvoke with the variant's error swallowed and the next test tried
ExactInvokeFallsThrough ==
    /\ dpc = "exact" /\ di <= Len(call.disp.exact)
    /\ call.types \subseteq call.disp.exact[di].argtypes
    /\ LET v == call.disp.exact[di]
       IN  \E out \in InvokeOutcomes(v.key, call.args, call.kwargs) :
               /\ log' = Append(log, Invocation(v, "exact", out))
               /\ IF out = "ok"
                  THEN result' = Returned(call.disp, v) /\ dpc' = "done" /\ di' = di
                  ELSE result' = result /\ dpc' = "exact" /\ di' = di + 1
    /\ UNCHANGED call
    /\ UNCHANGED genVars /\ UNCHANGED passVars

\* lines 596-601: the test holds, the variant is called and the dispatcher returns
\* what it returns or raises what it raises
ExactInvoke ==
    /\ dpc = "exact" /\ di <= Len(call.disp.exact)
    /\ call.types \subseteq call.disp.exact[di].argtypes
    /\ LET v == call.disp.exact[di]
       IN  \E out \in InvokeOutcomes(v.key, call.args, call.kwargs) :
               /\ log' = Append(log, Invocation(v, "exact", out))
               /\ result' = IF out = "ok" THEN Returned(call.disp, v)
                            ELSE Propagated(out, v)
    /\ dpc' = "done"
    /\ UNCHANGED <<call, di>>
    /\ UNCHANGED genVars /\ UNCHANGED passVars

\* no variant matched exactly: line 604
ExactExhausted ==
    /\ dpc = "exact" /\ di > Len(call.disp.exact)
    /\ dpc' = "best" /\ di' = 1
    /\ UNCHANGED <<call, log, result>>
    /\ UNCHANGED genVars /\ UNCHANGED passVars

\* lines 607-615: one try block
BestInvoke ==
    /\ dpc = "best" /\ di <= Len(call.disp.best)
    /\ LET v == call.disp.best[di]
       IN  \E out \in InvokeOutcomes(v.key, call.args, call.kwargs) :
               /\ log' = Append(log, Invocation(v, "best", out))
               /\ IF out = "ok"
                  THEN /\ result' = Returned(call.disp, v)
                       /\ dpc' = "done" /\ di' = di
                  ELSE IF out \in Tolerated
                  THEN /\ result' = result
                       /\ dpc' = "best" /\ di' = di + 1
                  ELSE /\ result' = Propagated(out, v)
                       /\ dpc' = "done" /\ di' = di
    /\ UNCHANGED call
    /\ UNCHANGED genVars /\ UNCHANGED passVars

\* line 616
DispatchFail ==
    /\ dpc = "best" /\ di > Len(call.disp.best)
    /\ result' = DispatchFailure(call.disp.def)
    /\ dpc' = "done"
    /\ UNCHANGED <<call, di, log>>
    /\ UNCHANGED genVars /\ UNCHANGED passVars

-----------------------------------------------------------------------------
(* Descriptions *)

sC == <<"C">>
sF == <<"f">>
sX == <<"x">>
sY == <<"y">>
sSrcPxd == <<"c", "p", "p", "_", "c", ".", "p", "x", "d">>   \* 'cpp_c.pxd'

ClassDesc(name, parents, attrs, methods) ==
    [kind |-> "class", name |-> name, parents |-> parents, attrs |-> attrs,
     methods |-> methods, srcpxd_filename |-> sSrcPxd, pxd_filename |-> Absent,
     pyx_filename |-> Absent]

FuncDesc(name, signatures) ==
    [kind |-> "func", name |-> name, parents |-> NoParents, attrs |-> <<>>,
     methods |-> signatures, srcpxd_filename |-> sSrcPxd, pxd_filename |-> Absent,
     pyx_filename |-> Absent]

\* the state in which a generator is entered with description d and classes cl
Entered(d, cl) ==
    /\ desc = d /\ classes = cl /\ pc = "start"
    /\ attritems = <<>> /\ ai = 0 /\ cached_names = <<>> /\ alines = <<>>
    /\ property_defaults = <<>>
    /\ methitems = <<>> /\ mi = 0 /\ currcounts = <<>> /\ mangled_mnames = <<>>
    /\ clines = <<>> /\ mlines = <<>>
    /\ call = NoCall /\ dpc = "idle" /\ di = 0 /\ log = <<>>
    /\ result = [kind |-> "none"]
    /\ cpppxd = NoOutput /\ pxd = NoOutput /\ passes = <<>>

\* the argument lists of the overloads the descriptions draw from
ArgLists ==
    { <<>>,
      <<<<sX, tInt>>>>, <<<<sX, tStr>>>>, <<<<sX, tNat>>>>, <<<<sY, tNat>>>>,
      <<<<sX, tInt>>, <<sY, tInt>>>>, <<<<sX, tNat>>, <<sY, tInt>>>> }

MaxGroup == 3        \* overloads per name in a dispatched group
MaxCallArgs == 2     \* arguments (positional and named) of a dispatcher call

Groups == {G \in SUBSET ArgLists : 2 <= Cardinality(G) /\ Cardinality(G) <= MaxGroup}

\* a class C whose only members are one group of overloads: methods f
\* returning int, or constructors
DispatchDescs ==
    {ClassDesc(sC, NoParents, <<>>, [k \in {Key(sF, a) : a \in G} |-> tInt]) : G \in Groups}
    \cup {ClassDesc(sC, NoParents, <<>>, [k \in {Key(sC, a) : a \in G} |-> None]) : G \in Groups}

\* the run-time types of the values a call passes: type(a)
DynTypes == {"int", "long", "str"}

SeqsUpTo(S, n) == UNION {[1..m -> S] : m \in 0..n}

KwArgs == UNION {[N -> DynTypes] : N \in SUBSET {sX, sY}}

DispInit == \E d \in DispatchDescs : Entered(d, NoClasses)

DispNext ==
    \/ PyxStart
    \/ PyxAttrsDone
    \/ PyxMethConstructor
    \/ PyxMethMethod
    \/ PyxFinish
    \/ \E d \in Dispatchers, args \in SeqsUpTo(DynTypes, MaxCallArgs), kwargs \in KwArgs :
           /\ Len(args) + Cardinality(DOMAIN kwargs) <= MaxCallArgs
           /\ DispatchCall(d, args, kwargs)
    \/ ExactSkip
    \/ ExactInvoke
    \/ ExactExhausted
    \/ BestInvoke
    \/ DispatchFail

SpecDispatch == DispInit /\ [][DispNext]_vars

-----------------------------------------------------------------------------
(* Properties of the generated dispatcher *)

\* the variants of the dispatcher that serves the call
Vs == {call.disp.exact[i] : i \in 1..Len(call.disp.exact)}

\* the pair set a variant requires: (index, dynamic type) and (name, dynamic type)
ReqPairs(v) ==
    {<<"i", <<i - 1>>, cython_pytype(v.key.args[i][2])>> : i \in 1..Len(v.key.args)}
    \cup {<<"k", v.key.args[i][1], cython_pytype(v.key.args[i][2])>> : i \in 1..Len(v.key.args)}

\* the pair set of the actual call
ActualPairs ==
    {<<"i", <<i - 1>>, call.args[i]>> : i \in 1..Len(call.args)}
    \cup {<<"k", k, call.kwargs[k]>> : k \in DOMAIN call.kwargs}

NRefined(v) == Cardinality({i \in 1..Len(v.key.args) : v.key.args[i][2] = tNat})
NArgs(v) == Len(v.key.args)

\* fewer refinement-typed arguments, then ascending argument count, then mangled name
ExactBefore(v, w) ==
    \/ NRefined(v) < NRefined(w)
    \/ NRefined(v) = NRefined(w) /\ NArgs(v) < NArgs(w)
    \/ NRefined(v) = NRefined(w) /\ NArgs(v) = NArgs(w) /\ StrLess(v.mangled, w.mangled)

\* more refinement-typed arguments, then ascending argument count, then mangled name
BestBefore(v, w) ==
    \/ NRefined(v) > NRefined(w)
    \/ NRefined(v) = NRefined(w) /\ NArgs(v) < NArgs(w)
    \/ NRefined(v) = NRefined(w) /\ NArgs(v) = NArgs(w) /\ StrLess(v.mangled, w.mangled)

ExactEntries == {i \in 1..Len(log) : log[i].phase = "exact"}
BestEntries == {i \in 1..Len(log) : log[i].phase = "best"}

\* the variants whose pair set contains the call's pair set
Qualifying == {v \in Vs : ActualPairs \subseteq ReqPairs(v)}

\* the variants whose pair set is contained in the call's pair set
QualifyingAsClaimed == {v \in Vs : ReqPairs(v) \subseteq ActualPairs}

\* the exact-match phase invoked the first variant of Q in the exact order, and
\* nothing if Q is empty
ExactPhaseChose(Q) ==
    IF Q = {} THEN ExactEntries = {}
    ELSE /\ ExactEntries = {1}
         /\ \E v \in Q : /\ log[1].variant = v.mangled
                         /\ \A w \in Q \ {v} : ExactBefore(v, w)

ThreeKinds == {"TypeError", "NameError", "RuntimeError"}

\* C1 (as amended): once the exact-match phase of a dispatcher call is over, the
\* variant it invoked is the first one, in the order (fewer refinement-typed
\* arguments, then ascending argument count, then mangled name), whose pair set
\* {(index, dynamic type), (argument name, dynamic type)} CONTAINS the pair set of
\* the actual call; if there is no such variant the phase invoked nothing.
C1_ExactMatchSelection ==
    dpc \in {"best", "done"} => ExactPhaseChose(Qualifying)

\* C1 as stated: the variant invoked is the first one whose required-pair set is
\* a subset of the pair set of the actual call.
C1_AsStated ==
    dpc \in {"best", "done"} => ExactPhaseChose(QualifyingAsClaimed)

\* C1 witness: a call with a positional and a named argument that two or more
\* variants match exactly has been served in the exact-match phase.
C1_Witness ==
    /\ dpc = "done" /\ ExactEntries = {1}
    /\ Len(call.args) >= 1 /\ DOMAIN call.kwargs # {}
    /\ Cardinality(Qualifying) >= 2

\* C2 (as amended): the best-effort phase tries the variants in the order: more
\* refinement-typed arguments first, then ASCENDING argument count, then mangled
\* name; the i-th variant it invokes is the one that exactly i-1 variants precede.
C2_BestEffortOrder ==
    dpc # "idle" =>
        \A i \in BestEntries :
            \E v \in Vs : /\ log[i].variant = v.mangled
                          /\ Cardinality({w \in Vs : BestBefore(w, v)}) = i - 1

\* C2 as stated: of two variants with the same number of refinement-typed
\* arguments, the one with more arguments is attempted before the one with fewer.
C2_AsStated ==
    dpc # "idle" =>
        \A i, j \in BestEntries :
            (i < j /\ RefineCount(log[i].key) = RefineCount(log[j].key))
                => Len(log[i].key.args) >= Len(log[j].key.args)

\* C2 witness: the best-effort phase has tried three variants, two of them with
\* the same refinement count and different argument counts, one with another
\* refinement count.
C2_Witness ==
    /\ dpc = "done" /\ Cardinality(BestEntries) >= 3
    /\ \E i, j \in BestEntries : /\ RefineCount(log[i].key) = RefineCount(log[j].key)
                                 /\ Len(log[i].key.args) # Len(log[j].key.args)
    /\ \E i, j \in BestEntries : RefineCount(log[i].key) # RefineCount(log[j].key)

\* C3 (as amended): a dispatcher call ends with the dispatch-failure error naming
\* the method exactly when no variant qualified in the exact-match phase and every
\* variant, tried in the best-effort phase, raised one of the three tolerated
\* kinds; a call that ends otherwise without a variant completing ends with the
\* error of the variant that raised it.
C3_DispatchFailure ==
    dpc = "done" =>
        /\ (result = [kind |-> "raise", value |-> "RuntimeError", by |-> "dispatcher",
                      who |-> call.disp.def])
           <=> (/\ Len(log) = Cardinality(Vs)
                /\ \A i \in 1..Len(log) : log[i].phase = "best" /\ log[i].outcome \in ThreeKinds)
        /\ (result.kind = "raise" /\ result.by # "dispatcher")
           => (/\ result.value = log[Len(log)].outcome
               /\ result.who = log[Len(log)].variant)

\* C3 as stated: whenever no variant completes successfully the call ends with
\* the dispatch-failure error and no other.
C3_AsStated ==
    (dpc = "done" /\ \A i \in 1..Len(log) : log[i].outcome # "ok")
        => result = [kind |-> "raise", value |-> "RuntimeError", by |-> "dispatcher",
                     who |-> call.disp.def]

\* C3 witness: a call ended with the dispatch-failure error after every variant
\* of a group of three was tried.
C3_Witness ==
    /\ dpc = "done" /\ result.kind = "raise" /\ result.by = "dispatcher"
    /\ Len(log) >= 3

\* C4: each best-effort invocation passes the original arguments; an invocation
\* that is followed by another raised one of the three tolerated kinds; the last
\* invocation, if it completed, is the result (the variant's value, or None for a
\* dispatcher without return value); if it raised a tolerated kind the next
\* variant is up (or, after the last variant, the dispatch has failed); if it
\* raised another kind the call has ended with that error.
C4_BestEffortTolerance ==
    dpc # "idle" =>
        \A i \in BestEntries :
            /\ log[i].args = call.args /\ log[i].kwargs = call.kwargs
            /\ i < Len(log) => log[i].outcome \in ThreeKinds
            /\ i = Len(log) =>
                 IF log[i].outcome = "ok"
                 THEN /\ dpc = "done"
                      /\ result = [kind |-> "return",
                                   value |-> IF call.disp.hasrtn THEN log[i].variant ELSE None,
                                   by |-> "variant", who |-> log[i].variant]
                 ELSE IF log[i].outcome \in ThreeKinds
                 THEN \/ dpc = "best" /\ di = i + 1
                      \/ /\ dpc = "done" /\ i = Cardinality(Vs)
                         /\ result.kind = "raise" /\ result.by = "dispatcher"
                 ELSE /\ dpc = "done"
                      /\ result = [kind |-> "raise", value |-> log[i].outcome,
                                   by |-> "variant", who |-> log[i].variant]

\* C4 witness: a variant raised a tolerated error, the next one completed and its
\* completion is the result.
C4_Witness ==
    /\ dpc = "done" /\ Len(log) >= 2 /\ BestEntries = 1..Len(log)
    /\ log[1].outcome = "RuntimeError"
    /\ log[Len(log)].outcome = "ok" /\ result.kind = "return"

IntOrStrGroup == {v.key.args : v \in Vs} = {<<<<sX, tInt>>>>, <<<<sX, tStr>>>>}

\* C5: a variant invoked in the exact-match phase is the only variant the call
\* invokes; the best-effort phase is entered only when no variant qualified; with
\* variants f(int) and f(str) a call with one integer invokes f(int) alone.
C5_ExactMatchExclusive ==
    dpc # "idle" =>
        /\ ExactEntries # {} => (Len(log) = 1 /\ dpc = "done")
        /\ (dpc = "best" \/ BestEntries # {}) => Qualifying = {}
        /\ (dpc = "done" /\ IntOrStrGroup /\ call.args = <<"int">> /\ call.kwargs = <<>>)
            => (Len(log) = 1 /\ log[1].key.args = <<<<sX, tInt>>>>)

\* C5 witness: f(int) and f(str), called with one integer, has been served.
C5_Witness ==
    /\ dpc = "done" /\ IntOrStrGroup
    /\ call.args = <<"int">> /\ call.kwargs = <<>>
    /\ log[1].outcome = "ok"

IntOrNatGroup == {v.key.args : v \in Vs} = {<<<<sX, tInt>>>>, <<<<sX, tNat>>>>}

LastIsInt == Len(log) >= 1 /\ log[Len(log)].key.args = <<<<sX, tInt>>>>

\* C6 (as amended): with variants f(int) and f(refinement-of-int) and a call with
\* one integer: an argument whose run-time type is exactly int is served by f(int)
\* in the exact-match phase and the refinement variant is not invoked; an argument
\* of another integer type (long) has the refinement variant tried first and, when
\* it raises a tolerated error, f(int) next; whenever f(int) completes, its result
\* is the result of the call and no error reaches the caller.
C6_RefinementFallThrough ==
    (dpc = "done" /\ IntOrNatGroup /\ Len(call.args) = 1 /\ call.kwargs = <<>>) =>
        /\ call.args[1] = "int" =>
               /\ Len(log) = 1 /\ log[1].phase = "exact"
               /\ log[1].key.args = <<<<sX, tInt>>>>
        /\ call.args[1] = "long" =>
               /\ log[1].phase = "best" /\ log[1].key.args = <<<<sX, tNat>>>>
               /\ log[1].outcome \in ThreeKinds =>
                      (Len(log) = 2 /\ log[2].key.args = <<<<sX, tInt>>>>)
        /\ (call.args[1] \in {"int", "long"} /\ LastIsInt /\ log[Len(log)].outcome = "ok")
               => (result.kind = "return" /\ result.who = log[Len(log)].variant)

\* C6 as stated: the call skips the refinement variant (tried, raising a tolerated
\* error) and falls through to f(int).
C6_AsStated ==
    (/\ dpc = "done" /\ IntOrNatGroup /\ Len(call.args) = 1 /\ call.kwargs = <<>>
     /\ call.args[1] \in {"int", "long"} /\ LastIsInt /\ log[Len(log)].outcome = "ok")
        => /\ Len(log) = 2
           /\ log[1].key.args = <<<<sX, tNat>>>> /\ log[1].outcome \in ThreeKinds

\* C6 witness: f(int) and f(refinement-of-int), called with one int, has been
\* served by f(int), which completed.
C6_Witness ==
    /\ dpc = "done" /\ IntOrNatGroup
    /\ call.args = <<"int">> /\ call.kwargs = <<>>
    /\ LastIsInt /\ log[Len(log)].outcome = "ok" /\ result.kind = "return"

-----------------------------------------------------------------------------
(* Name mangling: descriptions with several name groups *)

sG == <<"g">>
sBigF == <<"F">>
sTilde == <<"~", "C">>      \* the destructor '~C'
sPriv == <<"_", "p">>

\* the argument lists of a group of ten overloads
ManyArgLists ==
    ArgLists \cup { <<<<sX, tInt>>, <<sY, tStr>>>>, <<<<sX, tNat>>, <<sY, tNat>>>>,
                    <<<<sX, tStr>>, <<sY, tStr>>>> }

FGroups == {G \in SUBSET ArgLists : Cardinality(G) <= MaxGroup} \cup {ManyArgLists}

\* the members a class description adds to its overloads of f
OtherMethods ==
    { <<Key(sG, <<<<sX, tInt>>>>), tInt>>,
      <<Key(sBigF, <<>>), tInt>>, <<Key(sBigF, <<<<sX, tInt>>>>), tInt>>,
      <<Key(sC, <<>>), None>>, <<Key(sC, <<<<sX, tInt>>>>), None>>,
      <<Key(sTilde, <<>>), None>>,
      <<Key(sPriv, <<>>), tInt>> }

\* the functions a function description adds to its overloads of f
OtherFuncs ==
    { <<Key(sG, <<<<sX, tInt>>>>), tInt>>,
      <<Key(sBigF, <<>>), tInt>>, <<Key(sBigF, <<<<sX, tInt>>>>), tInt>>,
      <<Key(sPriv, <<>>), tInt>> }

\* the mapping with the given (key, return type) items
AsMapping(items) == [k \in {x[1] : x \in items} |-> (CHOOSE x \in items : x[1] = k)[2]]

MangleDescs ==
    {ClassDesc(sC, NoParents, <<>>,
               AsMapping({<<Key(sF, a), tInt>> : a \in G} \cup O)) :
        G \in FGroups, O \in SUBSET OtherMethods}
    \cup {FuncDesc(sBigF, AsMapping({<<Key(sF, a), tInt>> : a \in G} \cup O)) :
        G \in FGroups, O \in SUBSET OtherFuncs}

MangleInit == \E d \in MangleDescs : Entered(d, NoClasses)

MangleNext ==
    \/ PyxStart
    \/ PyxAttrsDone
    \/ PyxMethSkipPrivate
    \/ PyxMethSkipDestructor
    \/ PyxMethConstructor
    \/ PyxMethMethod
    \/ PyxFinish
    \/ FuncStart
    \/ FuncSkipPrivate
    \/ FuncFunction
    \/ FuncFinish

SpecMangle == MangleInit /\ [][MangleNext]_vars

\* the members of the description that share k's name, and k's position among
\* them in sorted-signature-key order
GroupKeys(k) == {x \in DOMAIN desc.methods : x.name = k.name}
GroupIndex(k) == Cardinality({x \in GroupKeys(k) : KeyLess(x, k)})

\* i zero-padded to the number of decimal digits of n (n < 100)
PaddedIndex(i, n) ==
    IF n < 10 THEN <<DigitChars[i + 1]>>
    ELSE <<DigitChars[(i \div 10) + 1], DigitChars[(i % 10) + 1]>>

\* _<owner>_<name>_<i>, the owner omitted for a free function
SuffixForm(k) ==
    (IF desc.kind = "class" THEN <<"_">> \o desc.name ELSE <<>>)
    \o <<"_">> \o k.name \o <<"_">>
    \o PaddedIndex(GroupIndex(k), Cardinality(GroupKeys(k)))

IsConstructorKey(k) ==
    desc.kind = "class" /\ desc.methods[k] = None /\ k.name \in {desc.name, sInit}

\* every mangled name of a group has the form that form, a mapping of the
\* signature keys, gives it
MangledAs(form) ==
    pc \in {"methods", "funcs", "done"} =>
        /\ \A k \in DOMAIN mangled_mnames :
               /\ ~IsPrivate(k.name)
               /\ mangled_mnames[k] =
                      IF Cardinality(GroupKeys(k)) = 1
                      THEN (IF IsConstructorKey(k) THEN sInit ELSE k.name)
                      ELSE form[k]
        /\ \A k1, k2 \in DOMAIN mangled_mnames :
               (k1 # k2 /\ k1.name = k2.name) => mangled_mnames[k1] # mangled_mnames[k2]
        /\ pc = "done" =>
               DOMAIN mangled_mnames = {k \in DOMAIN desc.methods : ~IsPrivate(k.name)}

SuffixForms == [k \in DOMAIN desc.methods |-> SuffixForm(k)]
LowerSuffixForms == [k \in DOMAIN desc.methods |-> Lower(SuffixForm(k))]

-----------------------------------------------------------------------------
(* Hierarchy-aware binding: classes with parents *)

sA == <<"A">>
sB == <<"B">>
sFoo == <<"f", "o", "o">>

FooKey == Key(sFoo, <<<<sX, tInt>>>>)

MaxParents == 2      \* parents of one class

\* the parents entries a class may have, its possible parents being `below`
ParentsOf(below) ==
    {NoParents} \cup
    {ps \in SeqsUpTo(below, MaxParents) :
        Len(ps) >= 1 /\ \A i, j \in 1..Len(ps) : i # j => ps[i] # ps[j]}

\* a method table: foo(int) absent, or present with one of two return types
Tables == {<<>>} \cup {(FooKey :> r) : r \in {tInt, tStr}}

\* three classes A, B, C; a class derives only from classes named before it
\* (A may also carry an empty parents list)
Hierarchies ==
    {(sA :> [parents |-> pa, methods |-> ta]) @@ (sB :> [parents |-> pb, methods |-> tb])
        @@ (sC :> [parents |-> pcc, methods |-> tc]) :
        pa \in {NoParents, <<>>}, pb \in ParentsOf({sA}), pcc \in ParentsOf({sA, sB}),
        ta \in Tables, tb \in Tables, tc \in Tables}

\* the description of class n of cl, carrying foo(int) with return type r
BindDesc(cl, n, r) == ClassDesc(n, cl[n].parents, <<>>, (FooKey :> r))

BindInit ==
    \E cl \in Hierarchies, n \in {sA, sB, sC}, r \in {tInt, tStr} :
        Entered(BindDesc(cl, n, r), cl)

BindNext ==
    \/ PyxStart
    \/ PyxAttrsDone
    \/ PyxMethMethod
    \/ PyxFinish

SpecBind == BindInit /\ [][BindNext]_vars

\* the linearized chain of the described class, and the places in it whose class
\* holds the identical signature-key to return-type pair
Chain == _class_heirarchy(desc.name, <<>>, classes)
Holders ==
    {i \in 1..Len(Chain) :
        /\ FooKey \in DOMAIN classes[Chain[i]].methods
        /\ classes[Chain[i]].methods[FooKey] = desc.methods[FooKey]}
Bound == pc = "done" /\ Len(mlines) = 1

\* C8 (as amended): when several classes of the linearized chain hold the
\* identical signature-key to return-type pair, the call is qualified against
\* the FIRST such class of the root-first chain (the most distant one).
C8_BindsFirstInChain ==
    (Bound /\ Holders # {}) =>
        \E i \in Holders : mlines[1].inst = Chain[i] /\ \A j \in Holders : i <= j

\* C8 as stated: with several holders, the call is qualified against the nearest
\* ancestor that holds the pair.
C8_AsStated ==
    LET anc == {i \in Holders : Chain[i] # desc.name}
    IN  (Bound /\ Cardinality(Holders) >= 2 /\ anc # {}) =>
            \E i \in anc : mlines[1].inst = Chain[i] /\ \A j \in anc : j <= i

\* C8 witness: two proper ancestors of the class hold the pair, and the call is
\* bound to the one that comes first in the chain.
C8_Witness ==
    /\ Bound /\ Len(Chain) = 3
    /\ {1, 2} \subseteq Holders /\ Chain[1] # Chain[2]
    /\ mlines[1].inst = Chain[1]

-----------------------------------------------------------------------------
(* Properties and their cache slots: descriptions with attributes *)

sAttrA == <<"a">>
sAttrB == <<"b">>
sAttrD == <<"d">>
sAttrH == <<"_", "h">>

MaxAttrs == 3        \* attributes of one class

AttrMaps ==
    UNION {[N -> {tInt, tStr, tVec}] :
              N \in {M \in SUBSET {sAttrA, sAttrB, sAttrD, sAttrH} : Cardinality(M) <= MaxAttrs}}

PropInit == \E a \in AttrMaps : Entered(ClassDesc(sC, NoParents, a, <<>>), NoClasses)

PropNext ==
    \/ PyxStart
    \/ PyxAttrSkipPrivate
    \/ PyxAttrProperty
    \/ PyxAttrsDone
    \/ PyxFinish

SpecProp == PropInit /\ [][PropNext]_vars

Properties == {alines[i] : i \in 1..Len(alines)}
Defaults == {property_defaults[i] : i \in 1..Len(property_defaults)}

\* C10: the setter of every property resets exactly the slot its getter fills
\* (none for an uncached conversion) and no slot of another attribute; once the
\* attributes are done every public attribute has its property and every slot a
\* getter fills is among the __cinit__ defaults.
C10_CacheRoundTrip ==
    /\ \A p \in Properties :
           /\ p.resets = p.populates
           /\ p.populates = IF desc.attrs[p.name] = tVec
                            THEN <<"s", "e", "l", "f", ".", "_">> \o p.name ELSE None
           /\ \A q \in Properties :
                  (q.name # p.name /\ p.resets # None) => p.resets # q.populates
    /\ pc \in {"methods", "done"} =>
           /\ {p.name : p \in Properties} = {n \in DOMAIN desc.attrs : ~IsPrivate(n)}
           /\ \A p \in Properties : p.populates # None => p.populates \in Defaults

\* C10 witness: a class with two cached attributes and an uncached one has its
\* properties and defaults generated.
C10_Witness ==
    /\ pc = "done"
    /\ Cardinality({p \in Properties : p.populates # None}) = 2
    /\ \E p \in Properties : p.populates = None /\ p.resets = None
    /\ Len(property_defaults) = 2

-----------------------------------------------------------------------------
(* The pipelines in sequence: generator calls, in any order, on one description *)

sSupplied == <<"m", "y">>       \* a file name the caller supplies

\* the constructors and the private method a class description may carry
PassMembers ==
    { <<Key(sC, <<>>), None>>, <<Key(sC, <<<<sX, tInt>>>>), None>>,
      <<Key(sPriv, <<>>), tInt>> }

\* two overloads of f, or none
PassOverloads ==
    { {}, {<<Key(sF, <<>>), tInt>>, <<Key(sF, <<<<sX, tInt>>>>), tInt>>} }

\* the member named ~C: none, one without return type, one with a return type
PassDestructors ==
    { {}, {<<Key(sTilde, <<>>), None>>}, {<<Key(sTilde, <<>>), tInt>>} }

\* a cached attribute, an uncached one and a private one
PassAttrs == (sAttrA :> tVec) @@ (sAttrB :> tInt) @@ (sAttrH :> tVec)

\* the description d with its filename slots set: none, the first, or all
\* three supplied by the caller
WithFiles(d) ==
    { [d EXCEPT !.srcpxd_filename = Absent],
      [d EXCEPT !.srcpxd_filename = sSupplied],
      [d EXCEPT !.srcpxd_filename = sSupplied, !.pxd_filename = sSupplied,
                !.pyx_filename = sSupplied] }

PassClassDescs ==
    UNION { WithFiles(ClassDesc(sC, ps, PassAttrs, AsMapping(O \cup F \cup D))) :
              ps \in {NoParents, <<sA>>}, O \in SUBSET PassMembers,
              F \in PassOverloads, D \in PassDestructors }

PassFuncDescs ==
    UNION { WithFiles(FuncDesc(sBigF, AsMapping(F \cup O))) :
              F \in PassOverloads \ {{}},
              O \in SUBSET {<<Key(sPriv, <<>>), tInt>>, <<Key(sG, <<>>), tInt>>} }

\* the classes the caller passes with a class description: the description
\* itself and, for a derived class, its root parent A
PassClasses(d) ==
    IF d.parents = NoParents THEN NoClasses
    ELSE (sA :> [parents |-> NoParents, methods |-> <<>>])
         @@ (d.name :> [parents |-> d.parents, methods |-> d.methods])

PassInit ==
    \/ \E d \in PassClassDescs : Entered(d, PassClasses(d))
    \/ \E d \in PassFuncDescs : Entered(d, NoClasses)

PassNext ==
    \/ ClassCppPxd
    \/ FuncCppPxd
    \/ ClassPxd
    \/ ClassPxdKeyError
    \/ PyxStart
    \/ PyxAttrSkipPrivate
    \/ PyxAttrProperty
    \/ PyxAttrsDone
    \/ PyxMethSkipPrivate
    \/ PyxMethSkipDestructor
    \/ PyxMethConstructor
    \/ PyxMethConstructorKeyError
    \/ PyxMethMethod
    \/ PyxFinish
    \/ FuncStart
    \/ FuncStartKeyError
    \/ FuncSkipPrivate
    \/ FuncFunction
    \/ FuncFinish
    \/ Return

SpecPasses == PassInit /\ [][PassNext]_vars

\* the elements of a sequence
Range(q) == {q[i] : i \in 1..Len(q)}

\* a name the skip rule covers: underscore-prefixed or destructor-named
Skipped(n) == IsPrivate(n) \/ IsDestructorName(n)

\* the names of the members for which classpyx / funcpyx has emitted a
\* property, a constructor, a method or function wrapper, or a dispatcher
PyxEmitted ==
    {p.name : p \in Range(alines)}
    \cup {e.key.name : e \in {x \in Range(clines \o mlines) :
                                  x.kind \in {"constructor", "method"}}}
    \cup UNION {{v.key.name : v \in Range(e.exact)} :
                   e \in {x \in Range(clines \o mlines) : x.kind = "dispatcher"}}

\* the names of the members classcpppxd / funccpppxd has declared
CppPxdEmitted ==
    IF cpppxd = NoOutput THEN {}
    ELSE {l.name : l \in Range(cpppxd.attrs) \cup Range(cpppxd.constructors)
                         \cup Range(cpppxd.methods)}

\* the attributes classpxd has declared a field for
PxdEmitted ==
    IF pxd = NoOutput THEN {} ELSE {b.attr : b \in Range(pxd.body)} \ {None}

\* C11 as stated: in no pipeline is anything emitted for a member whose name is
\* underscore-prefixed or destructor-named, whatever its return type.
C11_AsStated ==
    \A n \in PyxEmitted \cup CppPxdEmitted \cup PxdEmitted : ~Skipped(n)

\* what the code skips: underscore-prefixed members in every pipeline,
\* destructor-named members in classcpppxd, and in classpyx those without a
\* return type
SkippedByTheCode ==
    /\ \A n \in PyxEmitted \cup CppPxdEmitted \cup PxdEmitted : ~IsPrivate(n)
    /\ \A n \in CppPxdEmitted : desc.kind = "class" => ~IsDestructorName(n)
    /\ \A e \in Range(clines \o mlines) :
           (e.kind \in {"constructor", "method"} /\ IsDestructorName(e.key.name))
               => desc.methods[e.key] # None

\* the fields of the re-export block that are no cache slots, and the release
\* routines of the implementation
HandleFields == {b.field : b \in {x \in Range(pxd.body) : x.attr = None}}
Releases == {e \in Range(clines) : e.kind = "dealloc"}

\* C12: the re-export block of a class whose parents entry is None declares the
\* handle and the ownership flag, and its implementation has one release
\* routine, guarded by the ownership flag; those of a class with a declared
\* parent declare neither field and have no release routine.
C12_HandleOwnership ==
    /\ (pxd # NoOutput /\ desc.parents = NoParents) => HandleFields = {sInst, sFreeInst}
    /\ (pxd # NoOutput /\ desc.parents # NoParents) => HandleFields = {}
    /\ (pc = "done" /\ desc.kind = "class" /\ desc.parents = NoParents)
           => Releases = {[kind |-> "dealloc", guard |-> "_free_inst"]}
    /\ (pc = "done" /\ desc.kind = "class" /\ desc.parents # NoParents)
           => Releases = {}

\* C12 witness: both the re-export block and the implementation of a class
\* derived from A have been generated, with a cache slot as the only field.
C12_Witness ==
    /\ pc = "done" /\ pxd # NoOutput
    /\ desc.parents = <<sA>>
    /\ Len(pxd.body) = 1 /\ Len(clines) >= 1

\* the filename slots, and the name each generator derives for its slot
Slots == {"srcpxd_filename", "pxd_filename", "pyx_filename"}
Derived(slot) ==
    CASE slot = "srcpxd_filename" -> sCpp \o Lower(desc.name) \o sPxd
      [] slot = "pxd_filename" -> Lower(desc.name) \o sPxd
      [] slot = "pyx_filename" -> Lower(desc.name) \o sPyx

\* C13: no step of any generator pass changes a filename slot that is present;
\* a slot that is absent is only ever given the name derived from the
\* lower-cased description name; no other key of the description changes.
C13_FilenameMemoization ==
    [][ /\ \A slot \in Slots :
               /\ desc[slot] # Absent => desc'[slot] = desc[slot]
               /\ (desc[slot] = Absent /\ desc'[slot] # Absent)
                      => desc'[slot] = Derived(slot)
        /\ \A key \in (DOMAIN desc) \ Slots : desc'[key] = desc[key]
        /\ DOMAIN desc' = DOMAIN desc ]_vars

\* C13 witness: classcpppxd has run twice and classpxd once on a description
\* that came without filenames; both slots hold the derived names.
C13_Witness ==
    /\ Len(passes) = 3
    /\ passes[1].gen = "classcpppxd" /\ ~passes[1].had
    /\ passes[2].gen = "classpxd"
    /\ passes[3].gen = "classcpppxd"
    /\ desc.srcpxd_filename = sCpp \o <<"c">> \o sPxd
    /\ desc.pxd_filename = <<"c">> \o sPxd
    /\ desc.pyx_filename = Absent

-----------------------------------------------------------------------------
(* The class hierarchy list: acyclic sets of four classes *)

sD == <<"D">>

\* four classes A, B, C, D without method tables; a class derives only from
\* classes named before it (A may also carry an empty parents list)
ChainHierarchies ==
    {(sA :> [parents |-> pa, methods |-> <<>>]) @@ (sB :> [parents |-> pb, methods |-> <<>>])
        @@ (sC :> [parents |-> pcc, methods |-> <<>>])
        @@ (sD :> [parents |-> pd, methods |-> <<>>]) :
        pa \in {NoParents, <<>>}, pb \in ParentsOf({sA}), pcc \in ParentsOf({sA, sB}),
        pd \in ParentsOf({sA, sB, sC})}

ChainInit ==
    \E cl \in ChainHierarchies, n \in {sA, sB, sC, sD} :
        Entered(BindDesc(cl, n, tInt), cl)

ChainNext ==
    \/ PyxStart
    \/ PyxAttrsDone
    \/ PyxMethMethod
    \/ PyxFinish

SpecChain == ChainInit /\ [][ChainNext]_vars

\* the parents of a class as a set, and its ancestors
ParentSet(c) ==
    IF classes[c].parents = NoParents THEN {} ELSE Range(classes[c].parents)
RECURSIVE Ancestors(_)
Ancestors(c) == ParentSet(c) \cup UNION {Ancestors(p) : p \in ParentSet(c)}

\* root-first and self-last: the last element is the class itself, the first a
\* class without parents, the chain holds the class and its ancestors, and
\* before every place of the chain each ancestor of the class at that place occurs
RootFirstSelfLast ==
    /\ Len(Chain) >= 1
    /\ Chain[Len(Chain)] = desc.name
    /\ ParentSet(Chain[1]) = {}
    /\ Range(Chain) = {desc.name} \cup Ancestors(desc.name)
    /\ \A i \in 1..Len(Chain) :
           \A a \in Ancestors(Chain[i]) : \E j \in 1..(i - 1) : Chain[j] = a

\* C14 (as amended): the chain _method_instance_names computes for a class
\* whose parents entry is not None is root-first and self-last; for a class
\* whose parents entry is None it is empty.
C14_ChainRootFirst ==
    Bound => IF desc.parents = NoParents THEN Chain = <<>> ELSE RootFirstSelfLast

\* C14 as stated: the chain of every class is root-first and self-last.
C14_AsStated == Bound => RootFirstSelfLast

\* C14 witness: D derives from B and C, which both derive from the root A; the
\* chain of D holds A twice.
C14_Witness ==
    /\ Bound /\ desc.name = sD /\ desc.parents = <<sB, sC>>
    /\ classes[sB].parents = <<sA>> /\ classes[sC].parents = <<sA>>
    /\ classes[sA].parents = NoParents
    /\ Chain = <<sA, sB, sA, sC, sD>>

-----------------------------------------------------------------------------
(* Dispatcher emission and the names of the emitted callables *)

\* the blocks classpyx / funcpyx emit callables into
Blocks == {clines, mlines}

\* the variants (key, emitted name) a block holds before place i
VariantsBefore(block, i) ==
    {<<block[j].key, block[j].def>> :
        j \in {x \in 1..(i - 1) : block[x].kind \in {"constructor", "method"}}}

\* the places of a block that hold a dispatcher
DispatcherPlaces(block) == {i \in 1..Len(block) : block[i].kind = "dispatcher"}

\* the (key, mangled name) pairs a dispatcher refers to, and the name of its group
RefersTo(d) == {<<v.key, v.mangled>> : v \in Range(d.exact)}
GroupName(d) == d.exact[1].key.name

\* the names that have a dispatcher in some block
Dispatched == UNION {{GroupName(b[i]) : i \in DispatcherPlaces(b)} : b \in Blocks}

Callables ==
    UNION {{[def |-> b[i].def,
             group |-> IF b[i].kind = "dispatcher" THEN GroupName(b[i]) ELSE b[i].key.name] :
               i \in {x \in 1..Len(b) : b[x].kind \in {"constructor", "method", "dispatcher"}}} :
           b \in Blocks}

\* C16 as stated: the names under which callables are emitted are pairwise
\* distinct across the name groups of one description.
C16_AsStated ==
    \A c1, c2 \in Callables : c1.group # c2.group => c1.def # c2.def

-----------------------------------------------------------------------------
(* The order of the pipelines *)

\* the class has a constructor that classpyx emits
HasConstructor ==
    \E k \in DOMAIN desc.methods :
        desc.methods[k] = None /\ k.name = desc.name /\ ~IsPrivate(k.name)

\* the calls that read desc['srcpxd_filename'], and those that memoize it
Reads(p) ==
    \/ p.gen \in {"classpxd", "funcpyx"}
    \/ p.gen = "classpyx" /\ desc.kind = "class" /\ HasConstructor
Memoizes(p) == p.gen \in {"classcpppxd", "funccpppxd"}

\* C17: a call of classpxd, of funcpyx, or of classpyx on a class with a
\* constructor ends well exactly when the description carried srcpxd_filename
\* on entry, and with a missing-key error and without output otherwise; a
\* description that came without the key carries it only after classcpppxd or
\* funccpppxd has run on it.
C17_PipelineOrder ==
    /\ \A i \in 1..Len(passes) :
           /\ Reads(passes[i]) => (passes[i].outcome = "ok" <=> passes[i].had)
           /\ passes[i].outcome \in {"ok", "KeyError"}
           /\ passes[i].outcome = "KeyError" => Reads(passes[i])
           /\ passes[i].had =>
                  \/ passes[1].had
                  \/ \E j \in 1..(i - 1) : Memoizes(passes[j])
    /\ pc = "failed" =>
           /\ passes[Len(passes)].outcome = "KeyError"
           /\ alines = <<>> /\ clines = <<>> /\ mlines = <<>>
    /\ (passes # <<>> /\ passes[Len(passes)] = [gen |-> "classpxd", outcome |-> "KeyError",
                                                  had |-> FALSE])
           => pxd = NoOutput

\* C17 witness: on a class with a constructor that came without the key,
\* classpyx failed, classcpppxd ran, and classpyx then succeeded.
C17_Witness ==
    /\ pc = "done" /\ desc.kind = "class" /\ HasConstructor
    /\ Len(passes) = 3
    /\ passes[1] = [gen |-> "classpyx", outcome |-> "KeyError", had |-> FALSE]
    /\ passes[2] = [gen |-> "classcpppxd", outcome |-> "ok", had |-> FALSE]
    /\ passes[3] = [gen |-> "classpyx", outcome |-> "ok", had |-> TRUE]
    /\ Len(clines) >= 1

====
